---- MODULE Spec2Model ----
(***************************************************************************)
(* Model of sermon_assistant.py: the embedding store kept on Google Drive, *)
(* the session cache, the embedding generator with its retry loop, the     *)
(* incremental sync against the Notion listing, the one-time bulk build,   *)
(* the cosine-similarity top-k search, and the runs of main() that tie     *)
(* them together.                                                          *)
(***************************************************************************)
EXTENDS Integers, Sequences, FiniteSets, TLC

VARIABLES
    drive,   \* the JSON document stored in the Drive file GDRIVE_FILE_ID
    cache,   \* st.session_state['embeddings_cache'], one per browser session
    run,     \* what the last run of main() did and showed
    embed,   \* one request to the embedding generator and its outcome
    search,  \* one call of semantic_search and its outcome
    text     \* one call of create_embedding_text and its outcome

vars == <<drive, cache, run, embed, search, text>>

-----------------------------------------------------------------------------
(* Bounds of the model.                                                    *)

\* longest source listing a run of main() fetches
MaxListing == 2
\* longest embedding store a run of main() may produce
MaxStore == 2
\* longest source listing handed to sync when it is checked on its own
MaxSyncListing == 3
\* longest embedding store sync is handed or returns when checked on its own
MaxSyncStore == 3
\* number of successive answers of the embedding service that are scripted
ScriptLen == 4
\* largest top_k handed to semantic_search when it is checked on its own
MaxK == 3
\* longest store handed to semantic_search when it is checked on its own
MaxSearchStore == 3

\* longest snapshot two sessions have both loaded
MaxRaceSnapshot == 1
\* longest source listing a session fetches while another session is active
MaxRaceListing == 1
\* longest embedding store a session may produce while another is active
MaxRaceStore == 2

\* longest list of subjects or emotions of an illustration
MaxTags == 2

\* longest store of distinct pages handed to semantic_search
MaxTieStore == 7

\* longest store saved, cached or persisted when the save is checked on its own
MaxSaveStore == 2

(* Program constants.                                                      *)

\* get_embedding(text, max_retries=3)
MaxRetries == 3
\* main: semantic_search(search_query, embeddings_data, top_k=30)
MainTopK == 30

EMBEDDING_MODEL == "models/text-embedding-004"

-----------------------------------------------------------------------------
(* Values.                                                                 *)

\* page ids of the Notion listing (opaque strings)
Ids == {"a", "b", "c"}
\* the pages a listing may hold; title stands for the displayable content of
\* a page (title, summary, tags, ...); page a exists in two revisions
Items ==
    {[id |-> "a", title |-> "t1"], [id |-> "a", title |-> "t2"],
     [id |-> "b", title |-> "t1"], [id |-> "c", title |-> "t1"]}
\* embedding vectors the service may return; <<0, 0>> has zero magnitude.
\* The norms of these vectors are integers, so every cosine is one exact
\* floating-point division.
Vectors == {<<0, 0>>, <<1, 0>>, <<3, 4>>}
\* Python's None, and equally an empty list: both are falsy
None == <<>>

Sessions == {"s1", "s2"}

RECURSIVE SeqsUpTo(_, _)
SeqsUpTo(S, n) ==
    IF n = 0 THEN {<<>>}
    ELSE LET shorter == SeqsUpTo(S, n - 1)
         IN  shorter \cup {Append(s, x) : s \in {t \in shorter : Len(t) = n - 1}, x \in S}

Listings == SeqsUpTo(Items, MaxListing)

\* one answer of genai.embed_content: it raises, or it returns a vector
Outcomes == {[ok |-> FALSE, vec |-> None]} \cup {[ok |-> TRUE, vec |-> v] : v \in Vectors}
Scripts == [1..ScriptLen -> Outcomes]

-----------------------------------------------------------------------------
(* Embedding generator.                                                    *)

\* get_embedding with the loop variable attempt (0-based, as in the code);
\* script[attempt + 1] is what the service answers to this attempt.
RECURSIVE GetEmbeddingFrom(_, _)
GetEmbeddingFrom(script, attempt) ==
    IF attempt >= MaxRetries
    THEN [value |-> None, calls |-> attempt]
    ELSE LET result == script[attempt + 1]
         IN  IF result.ok
             THEN [value |-> result.vec, calls |-> attempt + 1]
             ELSE IF attempt < MaxRetries - 1
                  THEN GetEmbeddingFrom(script, attempt + 1)
                  ELSE [value |-> None, calls |-> attempt + 1]

GetEmbedding(script) == GetEmbeddingFrom(script, 0)

\* get_query_embedding: one try, None on any exception
GetQueryEmbedding(script) ==
    LET result == script[1]
    IN  IF result.ok
        THEN [value |-> result.vec, calls |-> 1]
        ELSE [value |-> None, calls |-> 1]

\* every value get_embedding can hand to its caller
DocEmbeddings == {GetEmbedding(s).value : s \in Scripts}
\* every value get_query_embedding can hand to its caller
QueryEmbeddings == {GetQueryEmbedding(s).value : s \in Scripts}

\* The runs of main() are explored with a service that fails or answers
\* this one vector.
MainScripts == {s \in Scripts : \A i \in 1..ScriptLen : s[i].ok => s[i].vec = <<3, 4>>}
MainDocEmbeddings == {GetEmbedding(s).value : s \in MainScripts}
MainQueryEmbeddings == {GetQueryEmbedding(s).value : s \in MainScripts}

-----------------------------------------------------------------------------
(* The text handed to the embedding service.  A string is the sequence of  *)
(* its characters, so joining is concatenation and an empty string is <<>>.*)

\* the value under a key of the illustration dict: no such key, a string,
\* or a list of strings
Absent == [kind |-> "absent", val |-> <<>>]
Str(chars) == [kind |-> "str", val |-> chars]
List(strings) == [kind |-> "list", val |-> strings]

\* truthiness of such a value: a non-empty string or a non-empty list
Truthy(x) == x.kind # "absent" /\ x.val # <<>>

\* sep.join(strings)
RECURSIVE Join(_, _)
Join(strings, sep) ==
    IF strings = <<>> THEN <<>>
    ELSE IF Len(strings) = 1 THEN strings[1]
    ELSE strings[1] \o sep \o Join(Tail(strings), sep)

TagSep == <<",", " ">>
PartSep == <<" ", "|", " ">>

\* illust.get('title', '')
TitleOf(illust) == IF illust.title.kind = "absent" THEN <<>> ELSE illust.title.val

\* the part a list-or-string field contributes, when it is truthy:
\* ", ".join(x) for a list, str(x) otherwise
TagsOf(x) == IF x.kind = "list" THEN Join(x.val, TagSep) ELSE x.val

\* parts as create_embedding_text builds it
Parts(illust) ==
    <<TitleOf(illust)>>
    \o (IF Truthy(illust.summary) THEN <<illust.summary.val>> ELSE <<>>)
    \o (IF Truthy(illust.subjects) THEN <<TagsOf(illust.subjects)>> ELSE <<>>)
    \o (IF Truthy(illust.emotions) THEN <<TagsOf(illust.emotions)>> ELSE <<>>)

CreateEmbeddingText(illust) == Join(Parts(illust), PartSep)

\* the illustrations the function is applied to
Tags == {<<>>, <<"x">>, <<"y">>}
TagValues == {Absent, Str(<<"x">>)} \cup {List(l) : l \in SeqsUpTo(Tags, MaxTags)}
Illustrations ==
    [title : {Absent, Str(<<>>), Str(<<"T">>)},
     summary : {Absent, Str(<<>>), Str(<<"S">>)},
     subjects : TagValues,
     emotions : TagValues]

-----------------------------------------------------------------------------
(* Google Drive and the session cache.                                     *)

\* what the Drive API does during one call of load or save
\* (get_drive_service returns a service or None; the download or upload
\* then succeeds or raises)
DriveUp == [service |-> TRUE, transfer |-> TRUE]
DriveEnvs ==
    {[service |-> FALSE, transfer |-> FALSE], [service |-> TRUE, transfer |-> FALSE], DriveUp}
\* Drive is contacted by load only when the session has no cached store
LoadEnvs(cached) == IF cached # <<>> THEN {DriveUp} ELSE DriveEnvs

Document(embeddings_data) ==
    [version |-> "1.0", model |-> EMBEDDING_MODEL,
     count |-> Len(embeddings_data), embeddings |-> embeddings_data]

\* load_embeddings_from_drive: the embeddings it returns and the cache it leaves
LoadEmbeddingsFromDrive(cached, doc, env) ==
    IF cached # <<>>
    THEN [embeddings |-> cached, cache |-> cached]
    ELSE IF ~env.service
         THEN [embeddings |-> <<>>, cache |-> cached]
         ELSE IF ~env.transfer
              THEN [embeddings |-> <<>>, cache |-> cached]
              ELSE [embeddings |-> doc.embeddings, cache |-> doc.embeddings]

\* (a slip: the upload adds to the content of the file instead of replacing it)
SaveEmbeddingsToDriveAppending(embeddings_data, cached, doc, env) ==
    IF ~env.service
    THEN [ok |-> FALSE, doc |-> doc, cache |-> cached]
    ELSE IF env.transfer
         THEN [ok |-> TRUE, doc |-> Document(doc.embeddings \o embeddings_data),
               cache |-> embeddings_data]
         ELSE [ok |-> FALSE, doc |-> doc, cache |-> cached]

\* (a slip: the session cache is set before the upload is known to succeed)
SaveEmbeddingsToDriveCachingFirst(embeddings_data, cached, doc, env) ==
    IF ~env.service
    THEN [ok |-> FALSE, doc |-> doc, cache |-> cached]
    ELSE IF env.transfer
         THEN [ok |-> TRUE, doc |-> Document(embeddings_data), cache |-> embeddings_data]
         ELSE [ok |-> FALSE, doc |-> doc, cache |-> embeddings_data]

\* save_embeddings_to_drive: its return value, the document and the cache
SaveEmbeddingsToDrive(embeddings_data, cached, doc, env) ==
    IF ~env.service
    THEN [ok |-> FALSE, doc |-> doc, cache |-> cached]
    ELSE IF env.transfer
         THEN [ok |-> TRUE, doc |-> Document(embeddings_data), cache |-> embeddings_data]
         ELSE [ok |-> FALSE, doc |-> doc, cache |-> cached]

-----------------------------------------------------------------------------
(* Bulk build and sync.                                                    *)

EmbeddingRecord(item, embedding) ==
    [id |-> item.id, title |-> item.title, embedding |-> embedding]

\* the loop shared by generate_all_embeddings and sync_embeddings_with_notion:
\* embeddings[i] is what get_embedding returned for items[i]
RECURSIVE EmbedItems(_, _)
EmbedItems(items, embeddings) ==
    IF items = <<>> THEN <<>>
    ELSE LET rest == EmbedItems(Tail(items), Tail(embeddings))
         IN  IF Head(embeddings) # None
             THEN <<EmbeddingRecord(Head(items), Head(embeddings))>> \o rest
             ELSE rest

GenerateAllEmbeddings(notion_data, embeddings) == EmbedItems(notion_data, embeddings)

\* (a slip: the set is built from the titles, not the ids)
ExistingTitles(embeddings_data) ==
    {embeddings_data[i].title : i \in DOMAIN embeddings_data}

ExistingIds(embeddings_data) ==
    {embeddings_data[i].id : i \in DOMAIN embeddings_data}

\* (a slip: "in" for "not in")
NewItemsInverted(notion_data, embeddings_data) ==
    SelectSeq(notion_data, LAMBDA item : item.id \in ExistingIds(embeddings_data))

NewItems(notion_data, embeddings_data) ==
    SelectSeq(notion_data, LAMBDA item : item.id \notin ExistingIds(embeddings_data))

NewEmbeddings(new_items, embeddings) == EmbedItems(new_items, embeddings)

\* (a slip: the operands of + swapped)
UpdatedDataPrepended(embeddings_data, new_embeddings) == new_embeddings \o embeddings_data

UpdatedData(embeddings_data, new_embeddings) == embeddings_data \o new_embeddings

\* (a slip: the save is not guarded)
SyncSavesAlways(new_embeddings) == TRUE

\* the guard of the save in sync: "if new_embeddings:"
SyncSaves(new_embeddings) == new_embeddings # <<>>

\* sync_embeddings_with_notion.  embeddings[i] is what get_embedding returns
\* for the i-th new item; env is the Drive behaviour during the save.
\* updated/count are the returned pair; the rest records what the call did.
SyncEmbeddingsWithNotion(notion_data, embeddings_data, embeddings, cached, doc, env) ==
    LET new_items == NewItems(notion_data, embeddings_data)
    IN  IF new_items = <<>>
        THEN [updated |-> embeddings_data, count |-> 0,
              embedded |-> <<>>, saves |-> 0, saved |-> FALSE,
              doc |-> doc, cache |-> cached]
        ELSE LET new_embeddings == NewEmbeddings(new_items, embeddings)
                 updated_data == UpdatedData(embeddings_data, new_embeddings)
                 save == SaveEmbeddingsToDrive(updated_data, cached, doc, env)
             IN  IF SyncSaves(new_embeddings)
                 THEN [updated |-> updated_data, count |-> Len(new_embeddings),
                       embedded |-> new_items, saves |-> 1, saved |-> save.ok,
                       doc |-> save.doc, cache |-> save.cache]
                 ELSE [updated |-> updated_data, count |-> Len(new_embeddings),
                       embedded |-> new_items, saves |-> 0, saved |-> FALSE,
                       doc |-> doc, cache |-> cached]

-----------------------------------------------------------------------------
(* Similarity ranking.                                                     *)

Dot(a, b) == a[1] * b[1] + a[2] * b[2]

\* np.linalg.norm on the vectors of the model (their norms are integers)
Norm(a) == CHOOSE n \in 0..(Dot(a, a)) : n * n = Dot(a, a)

\* cosine_similarity, in hundredths.  numpy divides 0 by 0.0 into nan (a
\* warning, no exception) when either vector has zero magnitude.
CosineSimilarity(a, b) ==
    IF Norm(a) * Norm(b) = 0
    THEN [nan |-> TRUE, v |-> 0]
    ELSE [nan |-> FALSE, v |-> (Dot(a, b) * 100) \div (Norm(a) * Norm(b))]

\* x < y on floats: every comparison with nan is False
FloatLt(x, y) == ~x.nan /\ ~y.nan /\ x.v < y.v
\* x >= y on floats
FloatGe(x, y) == ~x.nan /\ ~y.nan /\ x.v >= y.v

\* the comparison list.sort makes between two elements, by their sort key
KeyLt(x, y) == FloatLt(x.similarity, y.similarity)

RECURSIVE Reverse(_)
Reverse(s) == IF s = <<>> THEN <<>> ELSE Append(Reverse(Tail(s)), Head(s))

\* count_run of CPython's list.sort: the length of the run that starts the
\* list, and whether it is strictly descending
RECURSIVE RunLength(_, _, _)
RunLength(s, n, descending) ==
    IF n >= Len(s) THEN n
    ELSE IF KeyLt(s[n + 1], s[n]) = descending
         THEN RunLength(s, n + 1, descending)
         ELSE n

CountRun(s) ==
    IF Len(s) < 2 THEN [n |-> Len(s), descending |-> FALSE]
    ELSE LET descending == KeyLt(s[2], s[1])
         IN  [n |-> RunLength(s, 2, descending), descending |-> descending]

\* the binary search of binarysort: where pivot goes in s[l+1 .. r] (0-based l, r)
RECURSIVE BinarySearch(_, _, _, _)
BinarySearch(s, pivot, l, r) ==
    IF l >= r THEN l
    ELSE LET p == l + ((r - l) \div 2)
         IN  IF KeyLt(pivot, s[p + 1])
             THEN BinarySearch(s, pivot, l, p)
             ELSE BinarySearch(s, pivot, p + 1, r)

\* binarysort: s[1..start] is sorted; insert the elements after it one by one
RECURSIVE BinarySort(_, _)
BinarySort(s, start) ==
    IF start >= Len(s) THEN s
    ELSE LET pivot == s[start + 1]
             l == BinarySearch(s, pivot, 0, start)
             moved == SubSeq(s, 1, l) \o <<pivot>> \o SubSeq(s, l + 1, start)
                      \o SubSeq(s, start + 2, Len(s))
         IN  BinarySort(moved, start + 1)

\* list.sort without reverse, for a list shorter than 64 elements: the first
\* run (reversed in place if it descends) extended by binary insertion
SortAscending(s) ==
    IF Len(s) < 2 THEN s
    ELSE LET r == CountRun(s)
             head == SubSeq(s, 1, r.n)
             first == (IF r.descending THEN Reverse(head) ELSE head)
                      \o SubSeq(s, r.n + 1, Len(s))
         IN  BinarySort(first, r.n)

\* results.sort(key=similarity, reverse=True): CPython reverses the list,
\* sorts it ascending and reverses it again
SortBySimilarityDesc(results) == Reverse(SortAscending(Reverse(results)))

\* the record appended for a stored item: the item without its embedding,
\* with its similarity
Scored(item, query_embedding) ==
    [id |-> item.id, title |-> item.title,
     similarity |-> CosineSimilarity(query_embedding, item.embedding)]

\* the loop of semantic_search over the store
RECURSIVE ScoreAll(_, _)
ScoreAll(embeddings_data, query_embedding) ==
    IF embeddings_data = <<>> THEN <<>>
    ELSE LET item == Head(embeddings_data)
             rest == ScoreAll(Tail(embeddings_data), query_embedding)
         IN  IF item.embedding # None
             THEN <<Scored(item, query_embedding)>> \o rest
             ELSE rest

Min(a, b) == IF a < b THEN a ELSE b

\* results[:top_k] for top_k >= 0
TopK(results, top_k) == SubSeq(results, 1, Min(top_k, Len(results)))

\* semantic_search; query_embedding is what get_query_embedding returns
\* (it is not called when the store is empty)
SemanticSearch(query_embedding, embeddings_data, top_k) ==
    IF embeddings_data = <<>> THEN <<>>
    ELSE IF query_embedding = None THEN <<>>
    ELSE TopK(SortBySimilarityDesc(ScoreAll(embeddings_data, query_embedding)), top_k)

-----------------------------------------------------------------------------
(* Runs of main().  Streamlit runs main() from the top on every user       *)
(* action; embeddings_data is a local of the run, the session cache and    *)
(* the Drive document outlive it.                                          *)

NoRun ==
    [kind |-> "start", session |-> "s1", listing |-> <<>>, loaded |-> <<>>,
     store |-> <<>>, count |-> 0, embedded |-> <<>>, results |-> <<>>,
     saves |-> 0, saved |-> FALSE,
     docBefore |-> Document(<<>>), label |-> "", searched |-> FALSE,
     query |-> None, candidates |-> <<>>, curated |-> FALSE,
     repeat |-> FALSE, sameReturn |-> FALSE, prevCount |-> 0, prevDropped |-> 0]

\* number of items of the run's sync (or bulk build) for which get_embedding
\* returned no embedding
Dropped(r) == Cardinality({i \in DOMAIN r.results : r.results[i] = None})

\* the label main puts on the sync status: new_count > 0 or not
SyncLabel(new_count) == IF new_count > 0 THEN "added" ELSE "ready"

\* main with no button pressed: only the load at its top runs
MainView(s) ==
    \E envL \in LoadEnvs(cache[s]) :
      \E load \in {LoadEmbeddingsFromDrive(cache[s], drive, envL)} :
            /\ cache' = [cache EXCEPT ![s] = load.cache]
            /\ run' = [NoRun EXCEPT !.kind = "view", !.session = s,
                                    !.loaded = load.embeddings,
                                    !.store = load.embeddings,
                                    !.docBefore = drive]
            /\ UNCHANGED <<drive, embed, search, text>>

\* the refresh button: the cache entry is deleted and main is run again
MainRefresh(s) ==
    /\ cache' = [cache EXCEPT ![s] = <<>>]
    /\ run' = [NoRun EXCEPT !.kind = "refresh", !.session = s, !.docBefore = drive]
    /\ UNCHANGED <<drive, embed, search, text>>

\* needs_initial_setup and the build button pressed: fetch the listing,
\* embed all of it, save
MainSetup(s) ==
    \E envL \in LoadEnvs(cache[s]), notion_data \in Listings :
      \E load \in {LoadEmbeddingsFromDrive(cache[s], drive, envL)} :
        /\ Len(load.embeddings) = 0
        /\ IF notion_data = <<>>
           THEN /\ cache' = [cache EXCEPT ![s] = load.cache]
                /\ drive' = drive
                /\ run' = [NoRun EXCEPT !.kind = "setup", !.session = s,
                                        !.docBefore = drive]
           ELSE \E embeddings \in [1..Len(notion_data) -> MainDocEmbeddings],
                   envS \in DriveEnvs :
                  \E embeddings_data \in {GenerateAllEmbeddings(notion_data, embeddings)} :
                    \E save \in {SaveEmbeddingsToDrive(embeddings_data, load.cache,
                                                       drive, envS)} :
                      /\ Len(embeddings_data) <= MaxStore
                      /\ cache' = [cache EXCEPT ![s] = save.cache]
                      /\ drive' = save.doc
                      /\ run' = [NoRun EXCEPT !.kind = "setup", !.session = s,
                                              !.listing = notion_data,
                                              !.store = embeddings_data,
                                              !.count = Len(embeddings_data),
                                              !.embedded = notion_data,
                                              !.results = embeddings,
                                              !.saves = 1, !.saved = save.ok,
                                              !.docBefore = drive]
        /\ UNCHANGED <<embed, search, text>>

\* the candidates main hands to the curation prompt: the search result,
\* nothing else when it is empty
TopCandidates(query_embedding, embeddings_data) ==
    SemanticSearch(query_embedding, embeddings_data, MainTopK)

\* a store was loaded and the analyse button pressed with a draft: sync,
\* analyse the draft (main returns if that fails), search, curate
MainAnalyze(s) ==
    \E envL \in LoadEnvs(cache[s]), notion_data \in Listings, analysis_result \in BOOLEAN :
      \E load \in {LoadEmbeddingsFromDrive(cache[s], drive, envL)} :
        /\ Len(load.embeddings) # 0
        /\ \E new_items \in {NewItems(notion_data, load.embeddings)} :
            \E embeddings \in [1..Len(new_items) -> MainDocEmbeddings],
               query_embedding \in (IF analysis_result THEN MainQueryEmbeddings ELSE {None}) :
              \E envS \in (IF SyncSaves(NewEmbeddings(new_items, embeddings))
                           THEN DriveEnvs ELSE {DriveUp}) :
                \E sync \in {SyncEmbeddingsWithNotion(notion_data, load.embeddings,
                                                      embeddings, load.cache, drive, envS)} :
                  \E top_candidates \in {IF analysis_result
                                         THEN TopCandidates(query_embedding, sync.updated)
                                         ELSE <<>>} :
                    /\ Len(sync.updated) <= MaxStore
                    /\ cache' = [cache EXCEPT ![s] = sync.cache]
                    /\ drive' = sync.doc
                    /\ run' = [kind |-> "analyze", session |-> s,
                               listing |-> notion_data,
                               loaded |-> load.embeddings,
                               store |-> sync.updated,
                               count |-> sync.count,
                               embedded |-> sync.embedded,
                               results |-> embeddings,
                               saves |-> sync.saves, saved |-> sync.saved,
                               docBefore |-> drive,
                               label |-> SyncLabel(sync.count),
                               searched |-> analysis_result,
                               query |-> query_embedding,
                               candidates |-> top_candidates,
                               curated |-> top_candidates # <<>>,
                               repeat |-> /\ run.kind = "analyze"
                                          /\ notion_data = run.listing
                                          /\ load.embeddings = run.store,
                               sameReturn |-> /\ run.kind = "analyze"
                                              /\ sync.updated = run.store
                                              /\ sync.count = run.count,
                               prevCount |-> IF run.kind = "analyze"
                                             THEN run.count ELSE 0,
                               prevDropped |-> IF run.kind = "analyze"
                                               THEN Dropped(run) ELSE 0]
        /\ UNCHANGED <<embed, search, text>>

TextIdle == [illust |-> <<>>, done |-> FALSE, result |-> <<>>]

EmbedIdle ==
    [purpose |-> "document", script |-> [i \in 1..ScriptLen |-> [ok |-> FALSE, vec |-> None]],
     done |-> FALSE, value |-> None, calls |-> 0]

SearchIdle ==
    [store |-> <<>>, query |-> None, top_k |-> 0, done |-> FALSE, results |-> <<>>]

Init ==
    /\ drive = Document(<<>>)
    /\ cache = [s \in Sessions |-> <<>>]
    /\ run = NoRun
    /\ embed = EmbedIdle
    /\ text = TextIdle
    /\ search = SearchIdle

\* one browser session uses the application
Next ==
    \/ MainView("s1")
    \/ MainRefresh("s1")
    \/ MainSetup("s1")
    \/ MainAnalyze("s1")

Spec == Init /\ [][Next]_vars

-----------------------------------------------------------------------------
(* sync_embeddings_with_notion on its own: a caller holds a store, calls   *)
(* sync with a listing, keeps the store it returns and calls sync again    *)
(* with the same listing.                                                  *)

StoredRecords ==
    {EmbeddingRecord(item, e) : item \in Items, e \in MainDocEmbeddings \ {None}}

InitSync ==
    \E embeddings_data \in SeqsUpTo(StoredRecords, MaxSyncStore),
       notion_data \in SeqsUpTo(Items, MaxSyncListing) :
        /\ drive = Document(embeddings_data)
        /\ cache = [s \in Sessions |-> IF s = "s1" THEN embeddings_data ELSE <<>>]
        /\ run = [NoRun EXCEPT !.kind = "input", !.listing = notion_data,
                               !.store = embeddings_data,
                               !.docBefore = Document(embeddings_data)]
        /\ embed = EmbedIdle
        /\ text = TextIdle
        /\ search = SearchIdle

SyncCall(s) ==
    /\ run.kind \in {"input", "sync"}
    /\ \E new_items \in {NewItems(run.listing, run.store)} :
        \E embeddings \in [1..Len(new_items) -> MainDocEmbeddings] :
          \E envS \in (IF SyncSaves(NewEmbeddings(new_items, embeddings))
                       THEN DriveEnvs ELSE {DriveUp}) :
            \E sync \in {SyncEmbeddingsWithNotion(run.listing, run.store, embeddings,
                                                  cache[s], drive, envS)} :
              /\ Len(sync.updated) <= MaxSyncStore
              /\ cache' = [cache EXCEPT ![s] = sync.cache]
              /\ drive' = sync.doc
              /\ run' = [NoRun EXCEPT !.kind = "sync", !.session = s,
                                      !.listing = run.listing,
                                      !.loaded = run.store,
                                      !.store = sync.updated,
                                      !.count = sync.count,
                                      !.embedded = sync.embedded,
                                      !.results = embeddings,
                                      !.saves = sync.saves, !.saved = sync.saved,
                                      !.docBefore = drive,
                                      !.label = SyncLabel(sync.count),
                                      !.repeat = (run.kind = "sync"),
                                      !.sameReturn = /\ run.kind = "sync"
                                                     /\ sync.updated = run.store
                                                     /\ sync.count = run.count,
                                      !.prevCount = IF run.kind = "sync"
                                                    THEN run.count ELSE 0,
                                      !.prevDropped = IF run.kind = "sync"
                                                      THEN Dropped(run) ELSE 0]
    /\ UNCHANGED <<embed, search, text>>

NextSync == SyncCall("s1")

SpecSync == InitSync /\ [][NextSync]_vars

-----------------------------------------------------------------------------
(* save_embeddings_to_drive on its own: the Drive file holds a document,   *)
(* the session holds a cache (possibly stale, possibly empty), and a store *)
(* is saved once, with Drive up or failing.                                *)

SavedStores == SeqsUpTo(StoredRecords, MaxSaveStore)

\* run.loaded stands for the cache of the session when the save is called
InitSave ==
    \E existing \in SavedStores, cached \in SavedStores, embeddings_data \in SavedStores :
        /\ drive = Document(existing)
        /\ cache = [s \in Sessions |-> IF s = "s1" THEN cached ELSE <<>>]
        /\ run = [NoRun EXCEPT !.kind = "input", !.loaded = cached,
                               !.store = embeddings_data,
                               !.docBefore = Document(existing)]
        /\ embed = EmbedIdle
        /\ search = SearchIdle
        /\ text = TextIdle

SaveCall(s) ==
    /\ run.kind = "input"
    /\ \E env \in DriveEnvs :
        \E save \in {SaveEmbeddingsToDrive(run.store, cache[s], drive, env)} :
          /\ cache' = [cache EXCEPT ![s] = save.cache]
          /\ drive' = save.doc
          /\ run' = [run EXCEPT !.kind = "save", !.session = s,
                                !.count = Len(run.store),
                                !.saves = 1, !.saved = save.ok]
    /\ UNCHANGED <<embed, search, text>>

NextSave == SaveCall("s1")

SpecSave == InitSave /\ [][NextSave]_vars

-----------------------------------------------------------------------------
(* Two browser sessions on one Drive file.  Each holds in its cache the    *)
(* snapshot it loaded; a run of main() with the analyse button reads the   *)
(* cache only (load does not contact Drive while the cache is non-empty)   *)
(* and touches Drive in one place, the upload at the end of sync, so the   *)
(* runs of the two sessions interleave exactly as their uploads do.        *)

RaceListings == SeqsUpTo(Items, MaxRaceListing)

InitRace ==
    \E snapshot \in SeqsUpTo(StoredRecords, MaxRaceSnapshot) \ {<<>>} :
        /\ drive = Document(snapshot)
        /\ cache = [s \in Sessions |-> snapshot]
        /\ run = [NoRun EXCEPT !.kind = "loaded", !.loaded = snapshot,
                               !.store = snapshot,
                               !.docBefore = Document(snapshot)]
        /\ embed = EmbedIdle
        /\ text = TextIdle
        /\ search = SearchIdle

\* a run of main() with the analyse button, from the load at its top to the
\* sync status; the analysis and the search that follow touch neither the
\* cache nor Drive
MainSync(s) ==
    \E envL \in LoadEnvs(cache[s]), notion_data \in RaceListings :
      \E load \in {LoadEmbeddingsFromDrive(cache[s], drive, envL)} :
        /\ Len(load.embeddings) # 0
        /\ \E new_items \in {NewItems(notion_data, load.embeddings)} :
            \E embeddings \in [1..Len(new_items) -> MainDocEmbeddings] :
              \E envS \in (IF SyncSaves(NewEmbeddings(new_items, embeddings))
                           THEN DriveEnvs ELSE {DriveUp}) :
                \E sync \in {SyncEmbeddingsWithNotion(notion_data, load.embeddings,
                                                      embeddings, load.cache, drive, envS)} :
                    /\ Len(sync.updated) <= MaxRaceStore
                    /\ cache' = [cache EXCEPT ![s] = sync.cache]
                    /\ drive' = sync.doc
                    /\ run' = [NoRun EXCEPT !.kind = "analyze", !.session = s,
                                            !.loaded = load.embeddings,
                                            !.store = sync.updated,
                                            !.count = sync.count,
                                            !.saves = sync.saves, !.saved = sync.saved,
                                            !.docBefore = drive,
                                            !.label = SyncLabel(sync.count)]
        /\ UNCHANGED <<embed, search, text>>

NextRace ==
    \/ MainSync("s1")
    \/ MainSync("s2")

SpecRace == InitRace /\ [][NextRace]_vars

-----------------------------------------------------------------------------
(* The embedding generator on its own: one request, for a document or for  *)
(* a query, against a service whose successive answers are scripted.       *)

InitEmbed ==
    \E purpose \in {"document", "query"}, script \in Scripts :
        /\ embed = [EmbedIdle EXCEPT !.purpose = purpose, !.script = script]
        /\ text = TextIdle
        /\ drive = Document(<<>>)
        /\ cache = [s \in Sessions |-> <<>>]
        /\ run = NoRun
        /\ search = SearchIdle

EmbedDocument ==
    /\ embed.purpose = "document" /\ ~embed.done
    /\ \E r \in {GetEmbedding(embed.script)} :
         embed' = [embed EXCEPT !.done = TRUE, !.value = r.value, !.calls = r.calls]
    /\ UNCHANGED <<drive, cache, run, search, text>>

EmbedQuery ==
    /\ embed.purpose = "query" /\ ~embed.done
    /\ \E r \in {GetQueryEmbedding(embed.script)} :
         embed' = [embed EXCEPT !.done = TRUE, !.value = r.value, !.calls = r.calls]
    /\ UNCHANGED <<drive, cache, run, search, text>>

NextEmbed == EmbedDocument \/ EmbedQuery

SpecEmbed == InitEmbed /\ [][NextEmbed]_vars

-----------------------------------------------------------------------------
(* semantic_search on its own: a store, the answer of the query embedding  *)
(* and top_k are given, the search is run once.                            *)

SearchRecords == {[id |-> i, title |-> "t1", embedding |-> v] : i \in Ids, v \in Vectors}

InitSearch ==
    \E embeddings_data \in SeqsUpTo(SearchRecords, MaxSearchStore),
       query_embedding \in QueryEmbeddings, top_k \in 0..MaxK :
        /\ search = [SearchIdle EXCEPT !.store = embeddings_data,
                                       !.query = query_embedding, !.top_k = top_k]
        /\ drive = Document(<<>>)
        /\ cache = [s \in Sessions |-> <<>>]
        /\ run = NoRun
        /\ embed = EmbedIdle
        /\ text = TextIdle

Search ==
    /\ ~search.done
    /\ search' = [search EXCEPT !.done = TRUE,
                                !.results = SemanticSearch(search.query, search.store,
                                                           search.top_k)]
    /\ UNCHANGED <<drive, cache, run, embed, text>>

NextSearch == Search

SpecSearch == InitSearch /\ [][NextSearch]_vars

-----------------------------------------------------------------------------
(* semantic_search on longer stores whose records all have different ids,  *)
(* called as main calls it.                                                *)

PageIds == <<"a", "b", "c", "d", "e", "f", "g", "h", "i">>

\* the store whose i-th record has the i-th page id and the embedding vs[i]
StoreOf(vs) == [i \in 1..Len(vs) |-> [id |-> PageIds[i], title |-> "t1", embedding |-> vs[i]]]

InitTies ==
    \E vs \in SeqsUpTo(Vectors, MaxTieStore), query_embedding \in QueryEmbeddings :
        /\ search = [SearchIdle EXCEPT !.store = StoreOf(vs),
                                       !.query = query_embedding, !.top_k = MainTopK]
        /\ drive = Document(<<>>)
        /\ cache = [s \in Sessions |-> <<>>]
        /\ run = NoRun
        /\ embed = EmbedIdle
        /\ text = TextIdle

SpecTies == InitTies /\ [][NextSearch]_vars

-----------------------------------------------------------------------------
(* create_embedding_text on its own: applied once to an illustration.      *)

InitText ==
    \E illust \in Illustrations :
        /\ text = [TextIdle EXCEPT !.illust = illust]
        /\ drive = Document(<<>>)
        /\ cache = [s \in Sessions |-> <<>>]
        /\ run = NoRun
        /\ embed = EmbedIdle
        /\ search = SearchIdle

CreateText ==
    /\ ~text.done
    /\ text' = [text EXCEPT !.done = TRUE, !.result = CreateEmbeddingText(text.illust)]
    /\ UNCHANGED <<drive, cache, run, embed, search>>

NextText == CreateText

SpecText == InitText /\ [][NextText]_vars

-----------------------------------------------------------------------------
(* Properties of sync_embeddings_with_notion, checked under SpecSync.      *)

IsSync == run.kind = "sync"

\* the items of a listing whose id no record of a store carries
AbsentItems(notion_data, embeddings_data) ==
    SelectSeq(notion_data,
              LAMBDA item : \A j \in DOMAIN embeddings_data :
                                embeddings_data[j].id # item.id)

C2_SyncKeepsExisting ==
    IsSync =>
        /\ Len(run.store) = Len(run.loaded) + run.count
        /\ SubSeq(run.store, 1, Len(run.loaded)) = run.loaded

\* a sync that added a record while the listing omitted one stored id and
\* carried another stored id with changed content
C2_Witness ==
    /\ IsSync /\ run.count > 0
    /\ \E j \in DOMAIN run.loaded :
         \A i \in DOMAIN run.listing : run.listing[i].id # run.loaded[j].id
    /\ \E j \in DOMAIN run.loaded, i \in DOMAIN run.listing :
         /\ run.listing[i].id = run.loaded[j].id
         /\ run.listing[i].title # run.loaded[j].title

\* C5: sync asks an embedding for exactly the listing items whose id is
\* absent from the store, in listing order; when every generation succeeds
\* the count is their number and the returned store is the old one followed
\* by one record per such item.
C5_SyncEmbedsExactlyNew ==
    IsSync =>
        LET expected == AbsentItems(run.listing, run.loaded)
        IN  /\ run.embedded = expected
            /\ Dropped(run) = 0 =>
                 /\ run.count = Len(expected)
                 /\ run.store = run.loaded \o
                      [i \in 1..Len(expected) |->
                          EmbeddingRecord(expected[i], run.results[i])]

\* a listing of three items, one id already stored: two new records
C5_Witness ==
    /\ IsSync /\ Len(run.listing) = 3
    /\ Cardinality({i \in DOMAIN run.listing :
                      \E j \in DOMAIN run.loaded : run.loaded[j].id = run.listing[i].id}) = 1
    /\ Dropped(run) = 0 /\ run.count = 2

\* C6: sync calls the save only when at least one new record was embedded;
\* with no new id, or with every generation failed, nothing is written and
\* the Drive document is as it was.
C6_SyncWritesOnlyNewRecords ==
    IsSync =>
        /\ run.saves > 0 => run.count > 0
        /\ run.count = 0 => (run.saves = 0 /\ drive = run.docBefore)

\* a sync whose new items all failed to embed
C6_Witness ==
    /\ IsSync /\ run.embedded # <<>> /\ run.count = 0
    /\ run.saves = 0 /\ drive = run.docBefore

-----------------------------------------------------------------------------
(* Properties of the runs of main(), checked under Spec.                   *)

IsAnalyze == run.kind = "analyze"

UniqueIds(embeddings_data) ==
    \A i, j \in DOMAIN embeddings_data :
        embeddings_data[i].id = embeddings_data[j].id => i = j

\* C3: after any sequence of bulk builds and syncs no two records share an
\* id, neither in the store a run holds nor in the Drive document.
C3_IdsUnique ==
    /\ UniqueIds(run.store)
    /\ UniqueIds(drive.embeddings)

\* C4: when the save of a sync that produced new records fails, the caller
\* of sync is told: it is not left with a count of added records, and the
\* label that announces them, while the Drive document lacks them.
\* (sync returns (updated_data, count) only and never raises: the label main
\* derives from the count is all the caller has.)
C4_SaveFailureSurfaced ==
    (IsAnalyze /\ run.count > 0 /\ drive.embeddings # run.store)
        => run.label # "added"

\* C7: a new item whose embedding fails on every attempt is skipped, every
\* other new item is added and (when the save goes through) persisted, and
\* the number of dropped items can be told from what sync returns: two
\* syncs in a row that return the same (store, count) dropped equally many.
C7_DroppedItemsSkippedAndCounted ==
    (IsAnalyze /\ Dropped(run) > 0) =>
        /\ Len(run.store) = Len(run.loaded) + Len(run.embedded) - Dropped(run)
        /\ \A i \in DOMAIN run.results :
             run.results[i] # None =>
                \E k \in (Len(run.loaded) + 1)..Len(run.store) :
                    run.store[k] = EmbeddingRecord(run.embedded[i], run.results[i])
        /\ run.saved => drive.embeddings = run.store
        /\ run.sameReturn => Dropped(run) = run.prevDropped

\* C10: when the query embedding fails, main still hands candidates taken
\* from a non-empty store to the curation step.
C10_FallbackCandidates ==
    (IsAnalyze /\ run.searched /\ run.query = None /\ run.store # <<>>)
        => (run.candidates # <<>> /\ run.curated)

-----------------------------------------------------------------------------
(* Property of the embedding generator, checked under SpecEmbed.           *)

\* the attempts, among the first MaxRetries, that the service answers
SuccessfulAttempts(script) == {i \in 1..MaxRetries : script[i].ok}

\* C8: for either purpose the service is called at most 3 times; the vector
\* of the first successful attempt is returned, a failed attempt is retried
\* while attempts remain, and the failure value is returned exactly when all
\* 3 attempts failed.
C8_EmbedRetriesThrice ==
    embed.done =>
        LET ok == SuccessfulAttempts(embed.script)
        IN  IF ok = {}
            THEN embed.value = None /\ embed.calls = MaxRetries
            ELSE LET first == CHOOSE i \in ok : \A j \in ok : i <= j
                 IN  embed.value = embed.script[first].vec /\ embed.calls = first

-----------------------------------------------------------------------------
(* Property of semantic_search, checked under SpecSearch.                  *)

\* C9: with a query whose embedding succeeds the results are sorted
\* non-increasing by similarity and there are exactly min(k, |S|) of them;
\* an empty store gives the empty sequence.
C9_SearchSortedTopK ==
    (search.done /\ (search.query # None \/ search.store = <<>>)) =>
        /\ Len(search.results) = Min(search.top_k, Len(search.store))
        /\ \A i \in 1..(Len(search.results) - 1) :
             FloatGe(search.results[i].similarity, search.results[i + 1].similarity)

-----------------------------------------------------------------------------
(* Property of two sessions writing one Drive file, checked under SpecRace. *)

OtherSession(s) == CHOOSE o \in Sessions : o # s

IsPrefix(a, b) == Len(a) <= Len(b) /\ SubSeq(b, 1, Len(a)) = a

Records(embeddings_data) == {embeddings_data[i] : i \in DOMAIN embeddings_data}

\* session s has just written its store, built on the snapshot it had
\* loaded, after the other session had written a store built on the same
\* snapshot (a cache grows only by a successful save of its session)
WroteAfterOther(s) ==
    /\ IsAnalyze /\ run.session = s /\ run.saved
    /\ IsPrefix(run.loaded, cache[OtherSession(s)])
    /\ Len(cache[OtherSession(s)]) > Len(run.loaded)

\* C11: when two sessions that loaded the same snapshot each sync new items
\* and write, the Drive document afterwards is the store of the later
\* writer; the records only the earlier writer added are not in it; and
\* neither session is told: the later one shows its added records as saved,
\* the earlier one goes on loading its own store from its cache.
C11_LastWriterWins ==
    \A s \in Sessions :
        WroteAfterOther(s) =>
            LET o == OtherSession(s)
            IN  /\ drive = Document(run.store)
                /\ \A k \in (Len(run.loaded) + 1)..Len(cache[o]) :
                     cache[o][k] \notin Records(run.store)
                        => cache[o][k] \notin Records(drive.embeddings)
                /\ run.label = "added" /\ cache[s] = run.store
                /\ LoadEmbeddingsFromDrive(cache[o], drive, DriveUp).embeddings = cache[o]

\* the later writer has replaced a document that held a record it never
\* loaded, and that record is gone from Drive
C11_Witness ==
    \E s \in Sessions :
        /\ WroteAfterOther(s)
        /\ \E k \in (Len(run.loaded) + 1)..Len(cache[OtherSession(s)]) :
             /\ cache[OtherSession(s)][k] \in Records(run.docBefore.embeddings)
             /\ cache[OtherSession(s)][k] \notin Records(drive.embeddings)

-----------------------------------------------------------------------------
(* Further properties of semantic_search, checked under SpecSearch.        *)

ZeroMagnitude(v) == Dot(v, v) = 0

\* the records of a store whose similarity to the query is defined
Comparable(embeddings_data, query_embedding) ==
    SelectSeq(embeddings_data,
              LAMBDA item : /\ ~ZeroMagnitude(item.embedding)
                            /\ ~ZeroMagnitude(query_embedding))

\* C12: a stored embedding of zero magnitude (or a zero query vector) is
\* left out of the results; the results are the top_k of the remaining
\* records, each with its similarity, sorted non-increasing.
C12_ZeroMagnitudeExcluded ==
    (search.done /\ search.query # None) =>
        LET rest == Comparable(search.store, search.query)
        IN  /\ Len(search.results) = Min(search.top_k, Len(rest))
            /\ \A i \in DOMAIN search.results :
                 /\ ~search.results[i].similarity.nan
                 /\ \E j \in DOMAIN rest :
                      /\ rest[j].id = search.results[i].id
                      /\ search.results[i].similarity
                           = CosineSimilarity(search.query, rest[j].embedding)
            /\ \A i \in 1..(Len(search.results) - 1) :
                 FloatGe(search.results[i].similarity, search.results[i + 1].similarity)

-----------------------------------------------------------------------------
(* Property of create_embedding_text, checked under SpecText.              *)

\* the four components in their fixed order, each as one string
Components(illust) ==
    <<TitleOf(illust),
      IF illust.summary.kind = "absent" THEN <<>> ELSE illust.summary.val,
      IF illust.subjects.kind = "absent" THEN <<>> ELSE TagsOf(illust.subjects),
      IF illust.emotions.kind = "absent" THEN <<>> ELSE TagsOf(illust.emotions)>>

\* C13: the text is the non-empty components among title, summary, joined
\* subjects and joined emotions, in that order, joined by " | "; an empty or
\* missing component, the title included, gives neither text nor separator.
C13_EmbeddingTextSkipsEmpty ==
    text.done =>
        text.result = Join(SelectSeq(Components(text.illust), LAMBDA c : c # <<>>),
                           PartSep)

-----------------------------------------------------------------------------
(* Tie order of semantic_search, checked under SpecTies.                   *)

\* records i and j of the store have equal similarity to the query
Tied(i, j) ==
    LET si == CosineSimilarity(search.query, search.store[i].embedding)
        sj == CosineSimilarity(search.query, search.store[j].embedding)
    IN  ~si.nan /\ ~sj.nan /\ si.v = sj.v

\* C14: of two stored records with equal similarity the one earlier in the
\* store comes earlier in the results, and it is the one kept when the
\* top_k cut falls between them.  (Results are told apart by id, so the
\* stores looked at are those whose ids are distinct.)
C14_TiesKeepStoreOrder ==
    (search.done /\ search.query # None /\ UniqueIds(search.store)) =>
        \A i, j \in DOMAIN search.store :
            (i < j /\ Tied(i, j)) =>
                \A q \in DOMAIN search.results :
                    search.results[q].id = search.store[j].id
                        => \E p \in 1..(q - 1) :
                              search.results[p].id = search.store[i].id

-----------------------------------------------------------------------------
(* Property of save_embeddings_to_drive, checked under SpecSave.           *)

IsSave == run.kind = "save"

\* C15: a save that returns True has put the saved records, their number
\* and the configured model name into the Drive document and the saved
\* records into the session cache; a save that returns False (no Drive
\* service, or the upload failed) has left the document and the cache as
\* they were.
C15_SaveAllOrNothing ==
    IsSave =>
        IF run.saved
        THEN /\ drive.embeddings = run.store
             /\ drive.count = Len(run.store)
             /\ drive.model = EMBEDDING_MODEL
             /\ cache[run.session] = run.store
        ELSE /\ drive = run.docBefore
             /\ cache[run.session] = run.loaded

\* a failed save of a store that differs from both the document and the
\* cache, which themselves differ
C15_Witness ==
    /\ IsSave /\ ~run.saved
    /\ run.store # <<>>
    /\ run.store # run.docBefore.embeddings /\ run.store # run.loaded
    /\ run.loaded # run.docBefore.embeddings
    /\ drive = run.docBefore /\ cache[run.session] = run.loaded

-----------------------------------------------------------------------------
(* Property of the one-time bulk build, checked under Spec.                *)

\* C16: the bulk build and its save run only when the Drive document holds
\* no embeddings; a document with embeddings is never replaced by a bulk
\* build started because the load came back empty.
C16_BulkBuildOnlyOnEmptyDocument ==
    (run.kind = "setup" /\ run.saves > 0) => run.docBefore.embeddings = <<>>

====
